---- MODULE Spec2Model ----
(***************************************************************************)
(* Model of fp-kicad8-to-ergogen.py: the KiCad footprint to ergogen        *)
(* footprint converter.                                                    *)
(*                                                                         *)
(* A Python str is modelled as the sequence of its characters, so that     *)
(* `in`, str.replace, str.strip and str.isdigit are computed character by  *)
(* character as Python computes them.  A parsed node (pyparsing            *)
(* ParseResults) is a record: an atom carries its token, a list carries    *)
(* its children.                                                           *)
(***************************************************************************)
EXTENDS Integers, Sequences, FiniteSets, TLC

(***************************************************************************)
(* Python string primitives                                                *)
(***************************************************************************)

\* `sub in s` for two str values
Contains(s, sub) ==
    \E i \in 1..(Len(s) - Len(sub) + 1) : SubSeq(s, i, i + Len(sub) - 1) = sub

\* s.find(sub) as a 1-based index, 0 when sub does not occur
Find(s, sub) ==
    IF Contains(s, sub)
    THEN CHOOSE i \in 1..(Len(s) - Len(sub) + 1) :
             /\ SubSeq(s, i, i + Len(sub) - 1) = sub
             /\ \A j \in 1..(i - 1) : SubSeq(s, j, j + Len(sub) - 1) # sub
    ELSE 0

RECURSIVE Replace(_, _, _)
\* s.replace(old, new): the occurrences of old from left to right, not overlapping
Replace(s, old, new) ==
    LET i == Find(s, old)
    IN  IF i = 0 THEN s
        ELSE SubSeq(s, 1, i - 1) \o new
                 \o Replace(SubSeq(s, i + Len(old), Len(s)), old, new)

RECURSIVE LStrip(_, _)
LStrip(s, ch) == IF s # <<>> /\ Head(s) = ch THEN LStrip(Tail(s), ch) ELSE s

RECURSIVE RStrip(_, _)
RStrip(s, ch) ==
    IF s # <<>> /\ s[Len(s)] = ch THEN RStrip(SubSeq(s, 1, Len(s) - 1), ch) ELSE s

\* s.strip(ch) for a one-character ch
Strip(s, ch) == RStrip(LStrip(s, ch), ch)

\* c.isdigit() for an ASCII character
IsDigit(c) == c \in {"0", "1", "2", "3", "4", "5", "6", "7", "8", "9"}

RECURSIVE Join(_, _)
\* sep.join(items)
Join(items, sep) ==
    IF items = <<>> THEN <<>>
    ELSE IF Len(items) = 1 THEN items[1]
    ELSE items[1] \o sep \o Join(Tail(items), sep)

(***************************************************************************)
(* String literals of the program                                          *)
(***************************************************************************)

s_at == <<"a", "t">>
s_pad == <<"p", "a", "d">>
s_property == <<"p", "r", "o", "p", "e", "r", "t", "y">>
s_tstamp == <<"t", "s", "t", "a", "m", "p">>
s_uuid == <<"u", "u", "i", "d">>
s_rot == <<"$", "{", "p", ".", "r", "o", "t", "}">>
s_rot_tail == <<" ", "+", " ", "p", ".", "r", "o", "t", "}">>
s_dollar_brace == <<"$", "{">>
s_escaped_dollar_brace == <<"\\", "$", "{">>
s_empty_quoted == <<"\"", "\"">>
s_p_dot == <<"p", ".">>
s_Reference == <<"\"", "R", "e", "f", "e", "r", "e", "n", "c", "e", "\"">>
s_ref == <<"\"", "$", "{", "p", ".", "r", "e", "f", "}", "\"">>
s_REF == <<"\"", "R", "E", "F", "*", "*", "\"">>
s_layer == <<"l", "a", "y", "e", "r">>
s_hide == <<"h", "i", "d", "e">>
s_side_silks == <<"(", "l", "a", "y", "e", "r", " ", "\"", "$", "{", "p", ".", "s", "i", "d", "e", "}", ".", "S", "i", "l", "k", "S", "\"", ")">>
s_ref_hide == <<"$", "{", "p", ".", "r", "e", "f", "_", "h", "i", "d", "e", "}">>
s_layer_F_Cu == <<"(", "l", "a", "y", "e", "r", " ", "\"", "F", ".", "C", "u", "\"", ")">>
s_layer_B_Cu == <<"(", "l", "a", "y", "e", "r", " ", "\"", "B", ".", "C", "u", "\"", ")">>
s_layer_side_Cu == <<"(", "l", "a", "y", "e", "r", " ", "\"", "$", "{", "p", ".", "s", "i", "d", "e", "}", ".", "C", "u", "\"", ")">>
s_fp_line == <<"f", "p", "_", "l", "i", "n", "e">>
s_fp_poly == <<"f", "p", "_", "p", "o", "l", "y">>
s_fp_text == <<"f", "p", "_", "t", "e", "x", "t">>
s_p_at == <<"$", "{", "p", ".", "a", "t", " ", "/", "*", " ", "p", "a", "r", "a", "m", "e", "t", "r", "i", "c", " ", "p", "o", "s", "i", "t", "i", "o", "n", " ", "*", "/", "}">>
s_close_paren == <<" ", " ", " ", " ", ")">>
s_indent == <<" ", " ", " ", " ", " ", " ", " ", " ">>

(***************************************************************************)
(* Parsed nodes                                                            *)
(***************************************************************************)

Atom(tok) == [atom |-> TRUE, tok |-> tok, kids |-> <<>>]
List(kids) == [atom |-> FALSE, tok |-> <<>>, kids |-> kids]

(***************************************************************************)
(* ErgogenSyntaxConverter                                                  *)
(* A handler returns ok = FALSE when the Python code raises (IndexError).  *)
(***************************************************************************)

Returned(res, pads) == [ok |-> TRUE, res |-> res, pads |-> pads]
Raised == [ok |-> FALSE, res |-> <<>>, pads |-> {}]

\* _handle_at with `len(pos) <= 4` for `len(pos) < 4`
_handle_at_off_by_one(pos) ==
    IF Len(pos) <= 4
    THEN Returned(Append(pos, s_rot), {})
    ELSE Returned([pos EXCEPT ![4] = s_dollar_brace \o pos[4] \o s_rot_tail], {})

_handle_at(pos) ==
    IF Len(pos) < 4
    THEN Returned(Append(pos, s_rot), {})
    ELSE Returned([pos EXCEPT ![4] = s_dollar_brace \o pos[4] \o s_rot_tail], {})

_handle_pad(pad) ==
    IF Len(pad) < 2 THEN Raised
    ELSE IF pad[2] = s_empty_quoted THEN Returned(pad, {})
    ELSE LET pad_id == Strip(pad[2], "\"")
         IN  IF pad_id = <<>> THEN Raised
             ELSE LET modified_pad_name ==
                          IF IsDigit(pad_id[1]) THEN <<"P">> \o pad_id ELSE pad_id
                  IN  Returned(Append(pad, s_dollar_brace \o s_p_dot
                                               \o modified_pad_name \o <<"}">>),
                               {modified_pad_name})

\* the comprehension of lines 110-112 adding nothing
AddHideNever(items) == items

RECURSIVE AddHide(_)
\* the comprehension of lines 110-112
AddHide(items) ==
    IF items = <<>> THEN <<>>
    ELSE LET an_element == Head(items)
             keep(an_item) ==
                 IF Contains(an_element, s_layer) \/ an_item = an_element
                 THEN <<an_item>> ELSE <<>>
         IN  keep(an_element) \o keep(s_hide) \o AddHide(Tail(items))

_handle_property(result) ==
    IF Len(result) < 2 THEN Raised
    ELSE IF result[2] # s_Reference THEN Returned(result, {})
    ELSE IF Len(result) < 3 THEN Raised
    ELSE LET rest0 == SubSeq(result, 4, Len(result))
             rest1 == [i \in 1..Len(rest0) |->
                          IF Contains(rest0[i], s_layer) THEN s_side_silks ELSE rest0[i]]
             found == {i \in 1..Len(rest1) : Contains(rest1[i], s_hide)}
             rest2 == IF found = {} THEN AddHide(rest1) ELSE rest1
             rest3 == [i \in 1..Len(rest2) |->
                          IF Contains(rest2[i], s_hide) THEN s_ref_hide ELSE rest2[i]]
         IN  Returned(<<result[1], result[2], s_ref>> \o rest3, {})

_handle_ignore(result) == Returned(<<>>, {})

\* self.handlers.get(result[0], lambda x: x)
Dispatch(result) ==
    IF result[1] = s_at THEN _handle_at(result)
    ELSE IF result[1] = s_pad THEN _handle_pad(result)
    ELSE IF result[1] = s_property THEN _handle_property(result)
    ELSE IF result[1] \in {s_tstamp, s_uuid} THEN _handle_ignore(result)
    ELSE Returned(result, {})

\* item.replace("${", r"\${")
EscapeItem(item) == Replace(item, s_dollar_brace, s_escaped_dollar_brace)

\* remapping.get(item, item)
Remap(item) == IF item = s_REF THEN s_ref ELSE item

\* f"({result[0]} {' '.join(map(str, result[1:]))})"
Serialize(result) ==
    IF result = <<>> THEN <<>>
    ELSE <<"(">> \o result[1] \o <<" ">> \o Join(Tail(result), <<" ">>) \o <<")">>

RECURSIVE _rebuild_mod_data(_)
\* returns [ok, res, pads]: res is the returned text, pads the names added
\* to self.padnames by this call and the calls below it
_rebuild_mod_data(parsed_data) ==
    LET items == parsed_data.kids
        sub == [i \in 1..Len(items) |->
                   IF items[i].atom
                   THEN Returned(Remap(EscapeItem(items[i].tok)), {})
                   ELSE _rebuild_mod_data(items[i])]
        result == [i \in 1..Len(items) |-> sub[i].res]
        below == UNION {sub[i].pads : i \in 1..Len(items)}
    IN  IF \E i \in 1..Len(items) : ~sub[i].ok THEN Raised
        ELSE IF result = <<>> THEN Raised
        ELSE LET handled == Dispatch(result)
             IN  IF ~handled.ok THEN Raised
                 ELSE Returned(Serialize(handled.res), below \cup handled.pads)

RECURSIVE MakeOnelinesFrom(_, _, _)
\* the loop of _make_onelines from child i on, with the pending one_line
MakeOnelinesFrom(items, i, one_line) ==
    IF i > Len(items) THEN Returned(<<>>, {})
    ELSE IF ~items[i].atom
    THEN LET line == _rebuild_mod_data(items[i])
             more == MakeOnelinesFrom(items, i + 1, <<>>)
         IN  IF ~line.ok \/ ~more.ok THEN Raised
             ELSE Returned((IF one_line # <<>> THEN <<one_line>> ELSE <<>>)
                               \o <<line.res>> \o more.res,
                           line.pads \cup more.pads)
    ELSE MakeOnelinesFrom(items, i + 1, one_line \o <<" ">> \o items[i].tok)

_make_onelines(parsed_data) == MakeOnelinesFrom(parsed_data.kids, 1, <<>>)

(***************************************************************************)
(* Insertion-ordered dict: a sequence of [k, v] entries with distinct keys *)
(***************************************************************************)

DictKeys(d) == [i \in 1..Len(d) |-> d[i].k]

DictHas(d, key) == \E i \in 1..Len(d) : d[i].k = key

\* d.get(key, default)
DictGet(d, key, default) ==
    IF DictHas(d, key)
    THEN d[CHOOSE i \in 1..Len(d) : d[i].k = key].v
    ELSE default

\* d[key] = value
DictSet(d, key, value) ==
    IF DictHas(d, key)
    THEN [i \in 1..Len(d) |-> IF d[i].k = key THEN [k |-> key, v |-> value] ELSE d[i]]
    ELSE Append(d, [k |-> key, v |-> value])

(***************************************************************************)
(* Layers, KiCadModSyntax                                                  *)
(***************************************************************************)

F_CU == <<"F", ".", "C", "u">>
B_CU == <<"B", ".", "C", "u">>
PAD == <<"p", "a", "d">>
F_SILKS == <<"F", ".", "S", "i", "l", "k", "S">>
B_SILKS == <<"B", ".", "S", "i", "l", "k", "S">>
F_FAB == <<"F", ".", "F", "a", "b">>
B_FAB == <<"B", ".", "F", "a", "b">>
F_MASK == <<"F", ".", "M", "a", "s", "k">>
B_MASK == <<"B", ".", "M", "a", "s", "k">>
F_CRTYD == <<"F", ".", "C", "r", "t", "Y", "d">>
B_CRTYD == <<"B", ".", "C", "r", "t", "Y", "d">>
F_PASTE == <<"F", ".", "P", "a", "s", "t", "e">>
B_PASTE == <<"B", ".", "P", "a", "s", "t", "e">>
EDGE_CUTS == <<"E", "d", "g", "e", ".", "C", "u", "t", "s">>
DWGS_USER == <<"D", "w", "g", "s", ".", "U", "s", "e", "r">>
CMTS_USER == <<"C", "m", "t", "s", ".", "U", "s", "e", "r">>
ECO1_USER == <<"E", "c", "o", "1", ".", "U", "s", "e", "r">>
ECO2_USER == <<"E", "c", "o", "2", ".", "U", "s", "e", "r">>
MODEL == <<"m", "o", "d", "e", "l">>

\* the members of Layers in definition order, which is the order `for a_layer in Layers` visits
Layers ==
    << F_CU, B_CU, PAD, F_SILKS, B_SILKS, F_FAB, B_FAB, F_MASK, B_MASK,
       F_CRTYD, B_CRTYD, F_PASTE, B_PASTE, EDGE_CUTS, DWGS_USER, CMTS_USER,
       ECO1_USER, ECO2_USER, MODEL >>

OPENING == <<"O", "p", "e", "n", "i", "n", "g">>
CLOSING == <<"C", "l", "o", "s", "i", "n", "g">>

(***************************************************************************)
(* ErgogenFootPrint                                                        *)
(***************************************************************************)

\* the `options` dict of _get_layers, with [] for a layer it does not hold
Options(a_layer) ==
    IF a_layer \in {F_CU, B_CU} THEN <<s_pad, s_fp_line, s_fp_poly, s_fp_text>> ELSE <<>>

\* the test of lines 236-243: TRUE when the item goes to `filtered`
IsFiltered(a_layer, item, options) ==
    /\ Contains(item, a_layer)
    /\ ~(options # <<>> /\ ~\E o \in 1..Len(options) : Contains(item, options[o]))

RECURSIVE SelectLines(_, _, _, _)
SelectLines(a_layer, onelines, options, wanted) ==
    IF onelines = <<>> THEN <<>>
    ELSE (IF IsFiltered(a_layer, Head(onelines), options) = wanted
          THEN <<Head(onelines)>> ELSE <<>>)
         \o SelectLines(a_layer, Tail(onelines), options, wanted)

\* _filters_out leaving the claimed lines in the pool
_filters_out_keeping(a_layer, onelines, options) ==
    [filtered |-> SelectLines(a_layer, onelines, options, TRUE),
     unprocessed |-> onelines]

_filters_out(a_layer, onelines, options) ==
    [filtered |-> SelectLines(a_layer, onelines, options, TRUE),
     unprocessed |-> SelectLines(a_layer, onelines, options, FALSE)]

\* lines 262-264
NormalizeCu(an_item) ==
    Replace(Replace(an_item, s_layer_F_Cu, s_layer_side_Cu), s_layer_B_Cu, s_layer_side_Cu)

RECURSIVE SweepLayers(_, _, _)
\* the loop of lines 255-260 from the i-th member of Layers on
SweepLayers(i, unprocessed, layers) ==
    IF i > Len(Layers) THEN [layers |-> layers, unprocessed |-> unprocessed]
    ELSE LET a_layer == Layers[i]
             out == _filters_out(a_layer, unprocessed, Options(a_layer))
         IN  SweepLayers(i + 1, out.unprocessed,
                         IF out.filtered # <<>>
                         THEN DictSet(layers, a_layer, out.filtered)
                         ELSE layers)

_get_layers(unprocessed) ==
    LET swept == SweepLayers(1, unprocessed, <<>>)
    IN  DictSet(swept.layers, OPENING,
                [i \in 1..Len(swept.unprocessed) |-> NormalizeCu(swept.unprocessed[i])])

\* the target_layers dict of _make_code_blocks, in insertion order
target_layers ==
    << [k |-> OPENING,   v |-> [const_variable |-> "standard_opening", pre_block |-> <<"(">>, post_block |-> s_p_at]],
       [k |-> F_SILKS,   v |-> [const_variable |-> "front_silkscreen", pre_block |-> <<>>, post_block |-> <<>>]],
       [k |-> F_CU,      v |-> [const_variable |-> "front_pads", pre_block |-> <<>>, post_block |-> <<>>]],
       [k |-> F_FAB,     v |-> [const_variable |-> "front_fabrication", pre_block |-> <<>>, post_block |-> <<>>]],
       [k |-> F_MASK,    v |-> [const_variable |-> "front_mask", pre_block |-> <<>>, post_block |-> <<>>]],
       [k |-> F_CRTYD,   v |-> [const_variable |-> "front_courtyard", pre_block |-> <<>>, post_block |-> <<>>]],
       [k |-> F_PASTE,   v |-> [const_variable |-> "front_paste", pre_block |-> <<>>, post_block |-> <<>>]],
       [k |-> PAD,       v |-> [const_variable |-> "pads", pre_block |-> <<>>, post_block |-> <<>>]],
       [k |-> B_SILKS,   v |-> [const_variable |-> "back_silkscreen", pre_block |-> <<>>, post_block |-> <<>>]],
       [k |-> B_CU,      v |-> [const_variable |-> "back_pads", pre_block |-> <<>>, post_block |-> <<>>]],
       [k |-> B_FAB,     v |-> [const_variable |-> "back_fabrication", pre_block |-> <<>>, post_block |-> <<>>]],
       [k |-> B_MASK,    v |-> [const_variable |-> "back_mask", pre_block |-> <<>>, post_block |-> <<>>]],
       [k |-> B_CRTYD,   v |-> [const_variable |-> "back_courtyard", pre_block |-> <<>>, post_block |-> <<>>]],
       [k |-> B_PASTE,   v |-> [const_variable |-> "back_paste", pre_block |-> <<>>, post_block |-> <<>>]],
       [k |-> EDGE_CUTS, v |-> [const_variable |-> "edge_cuts", pre_block |-> <<>>, post_block |-> <<>>]],
       [k |-> DWGS_USER, v |-> [const_variable |-> "user_drawing", pre_block |-> <<>>, post_block |-> <<>>]],
       [k |-> CMTS_USER, v |-> [const_variable |-> "user_comments", pre_block |-> <<>>, post_block |-> <<>>]],
       [k |-> ECO1_USER, v |-> [const_variable |-> "user_eco1", pre_block |-> <<>>, post_block |-> <<>>]],
       [k |-> ECO2_USER, v |-> [const_variable |-> "user_eco2", pre_block |-> <<>>, post_block |-> <<>>]],
       [k |-> MODEL,     v |-> [const_variable |-> "model", pre_block |-> <<>>, post_block |-> <<>>]],
       [k |-> CLOSING,   v |-> [const_variable |-> "standard_closing", pre_block |-> <<>>, post_block |-> s_close_paren]] >>

\* One code block, lines 304-311.  The text
\*     "    const <const_variable> = `<pre_block>\n" <body lines> "    `\n"
\* is kept as its varying parts: the prefix and the body lines, each body
\* line carrying its eight-space indentation.
CodeBlock(target, a_layer) ==
    [pre_block |-> target.pre_block,
     body |-> [i \in 1..Len(a_layer) |-> s_indent \o a_layer[i]]
              \o (IF target.post_block # <<>> THEN <<s_indent \o target.post_block>> ELSE <<>>)]

RECURSIVE MakeBlocksFrom(_, _, _)
\* the loop of lines 301-312 from the i-th entry of target_layers on
MakeBlocksFrom(i, layers, layers_code_block) ==
    IF i > Len(target_layers) THEN layers_code_block
    ELSE LET layer_name == target_layers[i].k
             target == target_layers[i].v
             a_layer == DictGet(layers, layer_name, <<>>)
         IN  MakeBlocksFrom(i + 1, layers,
                            DictSet(layers_code_block, target.const_variable,
                                    CodeBlock(target, a_layer)))

RECURSIVE MakeBlocksSkippingFrom(_, _, _)
MakeBlocksSkippingFrom(i, layers, layers_code_block) ==
    IF i > Len(target_layers) THEN layers_code_block
    ELSE LET target == target_layers[i].v
             a_layer == DictGet(layers, target_layers[i].k, <<>>)
         IN  MakeBlocksSkippingFrom(i + 1, layers,
                 IF a_layer = <<>> /\ target.post_block = <<>>
                 THEN layers_code_block
                 ELSE DictSet(layers_code_block, target.const_variable,
                              CodeBlock(target, a_layer)))

\* _make_code_blocks leaving out the block of a bucket without lines
_make_code_blocks_skipping(layers) == MakeBlocksSkippingFrom(1, layers, <<>>)

_make_code_blocks(layers) == MakeBlocksFrom(1, layers, <<>>)

\* The text written by _dump_to_file, lines 323-348, kept as its varying
\* parts: one net parameter per pad name, the code blocks in code_blocks
\* order, and the operands of `let final = ...; final += ...;` in order.
FileText(code_blocks, padnames) ==
    [params |-> padnames,
     blocks |-> code_blocks,
     final |-> DictKeys(code_blocks)]

(***************************************************************************)
(* Input footprints                                                        *)
(***************************************************************************)

tok_footprint == <<"f", "o", "o", "t", "p", "r", "i", "n", "t">>
tok_q_literal == <<"\"", "$", "{", "x", "}", "\"">>
tok_q_F_Cu == <<"\"", "F", ".", "C", "u", "\"">>
tok_q_B_Cu == <<"\"", "B", ".", "C", "u", "\"">>
tok_q_F_Mask == <<"\"", "F", ".", "M", "a", "s", "k", "\"">>
tok_q_F_Fab == <<"\"", "F", ".", "F", "a", "b", "\"">>
tok_q_F_SilkS == <<"\"", "F", ".", "S", "i", "l", "k", "S", "\"">>
tok_5a == <<"5", "a">>
tok_q_1 == <<"\"", "1", "\"">>
tok_q_7 == <<"\"", "7", "\"">>
tok_A == <<"A">>
tok_smd == <<"s", "m", "d">>
tok_np == <<"n", "p">>
tok_0 == <<"0">>
tok_90 == <<"9", "0">>
tok_layers == <<"l", "a", "y", "e", "r", "s">>
tok_group == <<"g", "r", "o", "u", "p">>
tok_quote == <<"\"">>

\* footprint
n_footprint == Atom(tok_footprint)
\* "${x}"
n_literal == Atom(tok_q_literal)
\* (layer "F.Cu")
n_layer == List(<<Atom(s_layer), Atom(tok_q_F_Cu)>>)
\* (tstamp 5a)
n_tstamp == List(<<Atom(s_tstamp), Atom(tok_5a)>>)
\* (pad "1" smd (at 0 0) (layers "F.Cu" "F.Mask"))
n_pad_1 == List(<<Atom(s_pad), Atom(tok_q_1), Atom(tok_smd), List(<<Atom(s_at), Atom(tok_0), Atom(tok_0)>>), List(<<Atom(tok_layers), Atom(tok_q_F_Cu), Atom(tok_q_F_Mask)>>)>>)
\* (pad "" np (layers "B.Cu"))
n_pad_empty == List(<<Atom(s_pad), Atom(s_empty_quoted), Atom(tok_np), List(<<Atom(tok_layers), Atom(tok_q_B_Cu)>>)>>)
\* (pad A (at 0 0 90) (layers "B.Cu" "F.Cu"))
n_pad_A == List(<<Atom(s_pad), Atom(tok_A), List(<<Atom(s_at), Atom(tok_0), Atom(tok_0), Atom(tok_90)>>), List(<<Atom(tok_layers), Atom(tok_q_B_Cu), Atom(tok_q_F_Cu)>>)>>)
\* (fp_text "${x}" (layer "F.Fab") (uuid 5a))
n_fp_text == List(<<Atom(s_fp_text), Atom(tok_q_literal), List(<<Atom(s_layer), Atom(tok_q_F_Fab)>>), List(<<Atom(s_uuid), Atom(tok_5a)>>)>>)
\* (property "Reference" "REF**" (at 0 0) (layer "F.SilkS"))
n_property == List(<<Atom(s_property), Atom(s_Reference), Atom(s_REF), List(<<Atom(s_at), Atom(tok_0), Atom(tok_0)>>), List(<<Atom(s_layer), Atom(tok_q_F_SilkS)>>)>>)
\* (group (pad "7" smd))
n_group == List(<<Atom(tok_group), List(<<Atom(s_pad), Atom(tok_q_7), Atom(tok_smd)>>)>>)
\* (pad)
n_pad_bare == List(<<Atom(s_pad)>>)
\* (pad " smd)
n_pad_quote == List(<<Atom(s_pad), Atom(tok_quote), Atom(tok_smd)>>)

\* the children a root node is built from
RootPool ==
    { n_footprint, n_literal, n_layer, n_tstamp, n_pad_1, n_pad_empty,
      n_pad_A, n_fp_text, n_property, n_group }

\* the longest child sequence of a root node
MaxKids == 3

\* the most files of one directory walk
MaxFiles == 2

SeqsUpTo(S, n) == UNION {[1..k -> S] : k \in 0..n}

\* the root nodes nested_expr can return for the file named on the command line
Trees == {List(kids) : kids \in SeqsUpTo(RootPool, MaxKids)}

NoTree == List(<<>>)

\* a path and what open() and parse_string() make of it
File(dir, base, kind, tree) == [dir |-> dir, base |-> base, kind |-> kind, tree |-> tree]

\* the *.kicad_mod files a directory walk meets
DirFiles ==
    { File("lib", "a", "ok", List(<<n_footprint, n_pad_1, n_pad_A>>)),
      File("lib", "b", "ok", List(<<n_footprint, n_pad_empty, n_group>>)),
      File("old", "a", "ok", List(<<n_footprint, n_tstamp>>)),
      File("lib", "c", "missing", NoTree),
      File("lib", "d", "malformed", NoTree),
      File("lib", "e", "ok", List(<<n_footprint, n_pad_bare>>)),
      File("lib", "f", "ok", List(<<n_footprint, n_pad_quote>>)) }

\* os.walk yields every path once
Walks ==
    {w \in SeqsUpTo(DirFiles, MaxFiles) : \A i, j \in 1..Len(w) : i # j => w[i] # w[j]}

\* the single path of file mode, line 424
SingleFiles ==
    {<<File("lib", "x", "ok", t)>> : t \in Trees}
        \cup {<<File("lib", "x", "missing", NoTree)>>, <<File("lib", "x", "malformed", NoTree)>>}

(***************************************************************************)
(* Arguments of direct calls of _handle_at, _handle_property, _get_layers  *)
(***************************************************************************)

\* \${x}
tok_escaped_literal == <<"\\", "$", "{", "x", "}">>
\* "Value"
tok_q_Value == <<"\"", "V", "a", "l", "u", "e", "\"">>
\* "X"
tok_q_X == <<"\"", "X", "\"">>
\* (at 0 0 ${p.rot})
fld_at == <<"(", "a", "t", " ", "0", " ", "0", " ", "$", "{", "p", ".", "r", "o", "t", "}", ")">>
\* (layer "B.Fab")
fld_layer_B_Fab == <<"(", "l", "a", "y", "e", "r", " ", "\"", "B", ".", "F", "a", "b", "\"", ")">>
\* (hide yes)
fld_hide_yes == <<"(", "h", "i", "d", "e", " ", "y", "e", "s", ")">>
\* (effects (font (size 1 1)) hide)
fld_effects_hide == <<"(", "e", "f", "f", "e", "c", "t", "s", " ", "(", "f", "o", "n", "t", " ", "(", "s", "i", "z", "e", " ", "1", " ", "1", ")", ")", " ", "h", "i", "d", "e", ")">>
\*  footprint "X"
line_header == <<" ", "f", "o", "o", "t", "p", "r", "i", "n", "t", " ", "\"", "X", "\"">>
\* (layer "F.Cu")
line_layer_F_Cu == <<"(", "l", "a", "y", "e", "r", " ", "\"", "F", ".", "C", "u", "\"", ")">>
\* (pad "2" smd (layers "B.Cu" "F.Cu") ${p.P2})
line_pad_B_Cu_F_Cu == <<"(", "p", "a", "d", " ", "\"", "2", "\"", " ", "s", "m", "d", " ", "(", "l", "a", "y", "e", "r", "s", " ", "\"", "B", ".", "C", "u", "\"", " ", "\"", "F", ".", "C", "u", "\"", ")", " ", "$", "{", "p", ".", "P", "2", "}", ")">>
\* (fp_line (layer "B.Cu"))
line_fp_line_B_Cu == <<"(", "f", "p", "_", "l", "i", "n", "e", " ", "(", "l", "a", "y", "e", "r", " ", "\"", "B", ".", "C", "u", "\"", ")", ")">>
\* (zone (layers "B.Cu" "B.Mask"))
line_zone_B_Cu_B_Mask == <<"(", "z", "o", "n", "e", " ", "(", "l", "a", "y", "e", "r", "s", " ", "\"", "B", ".", "C", "u", "\"", " ", "\"", "B", ".", "M", "a", "s", "k", "\"", ")", ")">>
\* (fp_text "pad" (layer "F.SilkS"))
line_fp_text_F_SilkS == <<"(", "f", "p", "_", "t", "e", "x", "t", " ", "\"", "p", "a", "d", "\"", " ", "(", "l", "a", "y", "e", "r", " ", "\"", "F", ".", "S", "i", "l", "k", "S", "\"", ")", ")">>

\* the most elements after the head of a position node
MaxAtArgs == 4

\* the most fields after the value of a property node
MaxFields == 3

\* the most lines of one classification
MaxLines == 3

\* the elements of a position node as _rebuild_mod_data hands them over
AtArgs == {tok_0, tok_90, tok_escaped_literal}

AtNodes == {<<s_at>> \o args : args \in SeqsUpTo(AtArgs, MaxAtArgs)}

\* the fields of a property node as _rebuild_mod_data hands them over;
\* <<>> is what a dropped uuid child leaves
FieldPool == {fld_at, fld_layer_B_Fab, s_hide, fld_hide_yes, fld_effects_hide, <<>>}

PropertyNodes ==
    {<<s_property>>, <<s_property, s_Reference>>}
        \cup {<<s_property, key, s_ref>> \o fields :
                 key \in {s_Reference, tok_q_Value},
                 fields \in SeqsUpTo(FieldPool, MaxFields)}

\* rewritten lines as _make_onelines returns them
LinePool == {line_header, line_layer_F_Cu, line_pad_B_Cu_F_Cu, line_fp_line_B_Cu,
             line_zone_B_Cu_B_Mask, line_fp_text_F_SilkS, <<>>}

LineSeqs == SeqsUpTo(LinePool, MaxLines)

Call(fn, arg) == [fn |-> fn, arg |-> arg]

Calls ==
    {Call("_handle_at", a) : a \in AtNodes}
        \cup {Call("_handle_property", a) : a \in PropertyNodes}
        \cup {Call("_get_layers", a) : a \in LineSeqs}

(***************************************************************************)
(* The program                                                             *)
(***************************************************************************)

VARIABLES
    files,        \* the paths main converts, in order
    idx,          \* index in files of the path being converted, 0 before the first
    pc,           \* where the program is
    padnames,     \* ErgogenSyntaxConverter.padnames
    _onelines,    \* ErgogenFootPrint._onelines
    _padnames,    \* ErgogenFootPrint._padnames
    layers,       \* ergogen_layers of dump
    code_blocks,  \* code_blocks of dump
    outdir,       \* the output directory: <basename>.js -> text written
    errors,       \* the paths _LOGGER.error was called for
    call,         \* a direct call of one method: its name and argument
    ret           \* what the call returned

vars == <<files, idx, pc, padnames, _onelines, _padnames, layers, code_blocks,
          outdir, errors, call, ret>>

NoCall == [fn |-> "none", arg |-> <<>>]
NoRet == [done |-> FALSE, ok |-> TRUE, res |-> <<>>, layers |-> <<>>]

Init ==
    /\ files \in Walks \cup SingleFiles
    /\ idx = 0
    /\ pc = "main"
    /\ padnames = {}
    /\ _onelines = <<>>
    /\ _padnames = <<>>
    /\ layers = <<>>
    /\ code_blocks = <<>>
    /\ outdir = <<>>
    /\ errors = <<>>
    /\ call = NoCall
    /\ ret = NoRet

\* the orders list(self.padnames) can come in
Orders(S) ==
    {o \in [1..Cardinality(S) -> S] : \A i, j \in 1..Cardinality(S) : i # j => o[i] # o[j]}

\* NewConverter with one converter shared by all files
NewConverterShared ==
    /\ pc = "main"
    /\ idx < Len(files)
    /\ idx' = idx + 1
    /\ padnames' = padnames
    /\ pc' = "convert"
    /\ UNCHANGED <<files, _onelines, _padnames, layers, code_blocks, outdir, errors, call, ret>>

\* convert_kicad_fp_to_ergogen_fp is entered for the next path: line 373
NewConverter ==
    /\ pc = "main"
    /\ idx < Len(files)
    /\ idx' = idx + 1
    /\ padnames' = {}
    /\ pc' = "convert"
    /\ UNCHANGED <<files, _onelines, _padnames, layers, code_blocks, outdir, errors, call, ret>>

\* what _make_onelines(parsed_data[0]) does for the path being converted
Flattened == _make_onelines(files[idx].tree)

\* convert returns the lines and the pad names; lines 174-179, 186, 376
Convert ==
    /\ pc = "convert"
    /\ files[idx].kind = "ok"
    /\ Flattened.ok
    /\ padnames' = padnames \cup Flattened.pads
    /\ _onelines' = Flattened.res
    /\ _padnames' \in Orders(padnames')
    /\ pc' = "get_layers"
    /\ UNCHANGED <<files, idx, layers, code_blocks, outdir, errors, call, ret>>

\* open() raises FileNotFoundError; lines 180-183, 376
ConvertFileNotFound ==
    /\ pc = "convert"
    /\ files[idx].kind = "missing"
    /\ errors' = Append(errors, files[idx])
    /\ _onelines' = <<>>
    /\ _padnames' = <<>>
    /\ pc' = "get_layers"
    /\ UNCHANGED <<files, idx, padnames, layers, code_blocks, outdir, call, ret>>

\* parse_string raises ParseException, or a handler raises IndexError:
\* nothing catches it and the program ends
ConvertRaises ==
    /\ pc = "convert"
    /\ \/ files[idx].kind = "malformed"
       \/ files[idx].kind = "ok" /\ ~Flattened.ok
    /\ pc' = "raised"
    /\ UNCHANGED <<files, idx, padnames, _onelines, _padnames, layers, code_blocks,
                   outdir, errors, call, ret>>

\* line 363
GetLayers ==
    /\ pc = "get_layers"
    /\ layers' = _get_layers(_onelines)
    /\ pc' = "make_code_blocks"
    /\ UNCHANGED <<files, idx, padnames, _onelines, _padnames, code_blocks, outdir,
                   errors, call, ret>>

\* line 365
MakeCodeBlocks ==
    /\ pc = "make_code_blocks"
    /\ code_blocks' = _make_code_blocks(layers)
    /\ pc' = "dump_to_file"
    /\ UNCHANGED <<files, idx, padnames, _onelines, _padnames, layers, outdir,
                   errors, call, ret>>

\* line 366; <basename>.js is created or truncated and written, and
\* convert_kicad_fp_to_ergogen_fp returns
DumpToFile ==
    /\ pc = "dump_to_file"
    /\ outdir' = DictSet(outdir, files[idx].base, FileText(code_blocks, _padnames))
    /\ pc' = "main"
    /\ UNCHANGED <<files, idx, padnames, _onelines, _padnames, layers, code_blocks,
                   errors, call, ret>>

\* no path is left: main returns
Exit ==
    /\ pc = "main"
    /\ idx = Len(files)
    /\ pc' = "exit"
    /\ UNCHANGED <<files, idx, padnames, _onelines, _padnames, layers, code_blocks,
                   outdir, errors, call, ret>>

Next ==
    \/ NewConverter
    \/ Convert
    \/ ConvertFileNotFound
    \/ ConvertRaises
    \/ GetLayers
    \/ MakeCodeBlocks
    \/ DumpToFile
    \/ Exit

Spec == Init /\ [][Next]_vars

(***************************************************************************)
(* Direct calls of single methods                                          *)
(***************************************************************************)

Idle ==
    /\ files = <<>>
    /\ idx = 0
    /\ pc = "main"
    /\ padnames = {}
    /\ _onelines = <<>>
    /\ _padnames = <<>>
    /\ layers = <<>>
    /\ code_blocks = <<>>
    /\ outdir = <<>>
    /\ errors = <<>>

InitCalls ==
    /\ Idle
    /\ call \in Calls
    /\ ret = NoRet

program == <<files, idx, pc, padnames, _onelines, _padnames, layers, code_blocks,
             outdir, errors>>

CallHandleAt ==
    /\ call.fn = "_handle_at"
    /\ ~ret.done
    /\ LET r == _handle_at(call.arg)
       IN  ret' = [done |-> TRUE, ok |-> r.ok, res |-> r.res, layers |-> <<>>]
    /\ UNCHANGED <<program, call>>

CallHandleProperty ==
    /\ call.fn = "_handle_property"
    /\ ~ret.done
    /\ LET r == _handle_property(call.arg)
       IN  ret' = [done |-> TRUE, ok |-> r.ok, res |-> r.res, layers |-> <<>>]
    /\ UNCHANGED <<program, call>>

CallGetLayers ==
    /\ call.fn = "_get_layers"
    /\ ~ret.done
    /\ ret' = [done |-> TRUE, ok |-> TRUE, res |-> <<>>, layers |-> _get_layers(call.arg)]
    /\ UNCHANGED <<program, call>>

NextCalls ==
    \/ CallHandleAt
    \/ CallHandleProperty
    \/ CallGetLayers

SpecCalls == InitCalls /\ [][NextCalls]_vars

(***************************************************************************)
(* Properties                                                              *)
(***************************************************************************)

\* the number of places where sub occurs in s
CountOcc(s, sub) ==
    Cardinality({i \in 1..(Len(s) - Len(sub) + 1) : SubSeq(s, i, i + Len(sub) - 1) = sub})

RECURSIVE SumOf(_)
SumOf(ns) == IF ns = <<>> THEN 0 ELSE Head(ns) + SumOf(Tail(ns))

RECURSIVE Keep(_, _, _)
\* the lines whose bucket, as given by the function bucket, is key
Keep(lines, bucket, key) ==
    IF lines = <<>> THEN <<>>
    ELSE (IF bucket[Head(lines)] = key THEN <<Head(lines)>> ELSE <<>>)
         \o Keep(Tail(lines), bucket, key)

\* ---- C1 ----------------------------------------------------------------

CopperMarkers ==
    { <<"p", "a", "d">>, <<"f", "p", "_", "l", "i", "n", "e">>,
      <<"f", "p", "_", "p", "o", "l", "y">>, <<"f", "p", "_", "t", "e", "x", "t">> }

\* the selector of an enumerated layer: substring match plus, for the two
\* copper layers, one of the markers
Selects(a_layer, line) ==
    /\ Contains(line, a_layer)
    /\ a_layer \in {<<"F", ".", "C", "u">>, <<"B", ".", "C", "u">>}
           => \E m \in CopperMarkers : Contains(line, m)

\* the bucket a line belongs to: the first enumerated layer selecting it
BucketOf(line) ==
    IF \E i \in 1..Len(Layers) : Selects(Layers[i], line)
    THEN Layers[CHOOSE i \in 1..Len(Layers) :
                    /\ Selects(Layers[i], line)
                    /\ \A j \in 1..(i - 1) : ~Selects(Layers[j], line)]
    ELSE OPENING

HasCopperRef(line) == Contains(line, s_layer_F_Cu) \/ Contains(line, s_layer_B_Cu)

\* an opening line is the input line, or the input line with its copper
\* layer references made side-parametric
SameUpToCopper(got, line) ==
    \/ got = line
    \/ /\ HasCopperRef(line)
       /\ ~HasCopperRef(got)
       /\ CountOcc(got, s_layer_side_Cu) = CountOcc(line, s_layer_F_Cu) + CountOcc(line, s_layer_B_Cu)

\* C1: classification is a strict partition of the line sequence: every
\* layer bucket holds exactly the lines whose first selecting layer it is, in
\* input order; "Opening" holds the lines no layer selects, up to the copper
\* normalization; no line is duplicated or lost; a line that two layers
\* select is in the bucket of the earlier one.
C1_StrictPartition ==
    (call.fn = "_get_layers" /\ ret.done) =>
        LET lines == call.arg
            bucket == [l \in {lines[i] : i \in 1..Len(lines)} |-> BucketOf(l)]
            got(key) == DictGet(ret.layers, key, <<>>)
            rest == Keep(lines, bucket, OPENING)
        IN  /\ \A i \in 1..Len(Layers) : got(Layers[i]) = Keep(lines, bucket, Layers[i])
            /\ Len(got(OPENING)) = Len(rest)
            /\ \A j \in 1..Len(rest) : SameUpToCopper(got(OPENING)[j], rest[j])
            /\ \A i, j \in 1..Len(ret.layers) : i # j => ret.layers[i].k # ret.layers[j].k
            /\ \A i \in 1..Len(ret.layers) :
                   ret.layers[i].k \in {Layers[j] : j \in 1..Len(Layers)} \cup {OPENING}
            /\ SumOf([i \in 1..Len(ret.layers) |-> Len(ret.layers[i].v)]) = Len(lines)

\* a pad line naming both copper layers, B.Cu first in its text, has been
\* classified together with a line no layer selects
C1_Witness ==
    /\ call.fn = "_get_layers"
    /\ ret.done
    /\ call.arg = <<line_pad_B_Cu_F_Cu, line_layer_F_Cu, line_zone_B_Cu_B_Mask>>
    /\ DictGet(ret.layers, F_CU, <<>>) = <<line_pad_B_Cu_F_Cu>>
    /\ ~DictHas(ret.layers, B_CU)
    /\ DictGet(ret.layers, B_MASK, <<>>) = <<line_zone_B_Cu_B_Mask>>
    /\ DictGet(ret.layers, OPENING, <<>>) = <<s_layer_side_Cu>>

\* ---- C8 ----------------------------------------------------------------

ReferencePlaceholder == <<"\"", "$", "{", "p", ".", "r", "e", "f", "}", "\"">>
SilkLayerPlaceholder == <<"(", "l", "a", "y", "e", "r", " ", "\"", "$", "{", "p", ".", "s", "i", "d", "e", "}", ".", "S", "i", "l", "k", "S", "\"", ")">>
HidePlaceholder == <<"$", "{", "p", ".", "r", "e", "f", "_", "h", "i", "d", "e", "}">>

\* the fields of a property node after its value field
FieldsOf(node) == SubSeq(node, 4, Len(node))

LayerFields(fields) == {i \in 1..Len(fields) : Contains(fields[i], <<"l", "a", "y", "e", "r">>)}
HideFields(fields) == {i \in 1..Len(fields) : Contains(fields[i], <<"h", "i", "d", "e">>)}

\* value, one layer field, one visibility field, each the placeholder
ReferenceRewritten(out) ==
    /\ Len(out) >= 3
    /\ out[3] = ReferencePlaceholder
    /\ Cardinality(LayerFields(FieldsOf(out))) = 1
    /\ \A i \in LayerFields(FieldsOf(out)) : FieldsOf(out)[i] = SilkLayerPlaceholder
    /\ Cardinality(HideFields(FieldsOf(out))) = 1
    /\ \A i \in HideFields(FieldsOf(out)) : FieldsOf(out)[i] = HidePlaceholder

IsReferenceCall ==
    /\ call.fn = "_handle_property"
    /\ ret.done
    /\ Len(call.arg) >= 3
    /\ call.arg[2] = <<"\"", "R", "e", "f", "e", "r", "e", "n", "c", "e", "\"">>
    /\ Cardinality(HideFields(FieldsOf(call.arg))) <= 1

\* C8 as stated: every "Reference" property node with zero or one hide
\* flags, whatever its other fields, is rewritten to the reference value,
\* exactly one silkscreen layer placeholder and exactly one hide placeholder.
C8_AnyFields ==
    IsReferenceCall => ret.ok /\ ReferenceRewritten(ret.res)

\* C8 amended: the same, for the "Reference" property nodes that carry
\* exactly one field containing `layer` after the value field.
C8_OneLayerField ==
    (IsReferenceCall /\ Cardinality(LayerFields(FieldsOf(call.arg))) = 1)
        => ret.ok /\ ReferenceRewritten(ret.res)

\* a "Reference" node with a position, one layer and no hide flag has got
\* its hide placeholder next to the layer placeholder
C8_Witness ==
    /\ IsReferenceCall
    /\ call.arg = <<s_property, s_Reference, s_ref, fld_at, fld_layer_B_Fab, <<>>>>
    /\ ret.res = <<s_property, s_Reference, ReferencePlaceholder, fld_at,
                   SilkLayerPlaceholder, HidePlaceholder, <<>>>>

\* ---- C9 ----------------------------------------------------------------

RotPlaceholder == <<"$", "{", "p", ".", "r", "o", "t", "}">>
RotSuffix == <<"p", ".", "r", "o", "t", "}">>

\* C9: _handle_at appends one `${p.rot}` to a node of fewer than 4 elements
\* and leaves its elements as they are; with a 4th element v it turns that
\* element into `${v + p.rot}` and leaves every other element as it is.
C9_HandleAt ==
    (call.fn = "_handle_at" /\ ret.done) =>
        LET pos == call.arg
            out == ret.res
        IN  /\ ret.ok
            /\ Len(pos) < 4 =>
                   /\ Len(out) = Len(pos) + 1
                   /\ \A i \in 1..Len(pos) : out[i] = pos[i]
                   /\ out[Len(out)] = RotPlaceholder
            /\ Len(pos) >= 4 =>
                   /\ Len(out) = Len(pos)
                   /\ out[4] = <<"$", "{">> \o pos[4] \o <<" ", "+", " ">> \o RotSuffix
                   /\ \A i \in 1..Len(pos) : i # 4 => out[i] = pos[i]
            /\ Cardinality({i \in 1..Len(out) : Contains(out[i], RotSuffix)}) = 1

\* a node with a rotation and one more element after it has been rewritten
C9_Witness ==
    /\ call.fn = "_handle_at"
    /\ ret.done
    /\ call.arg = <<s_at, tok_0, tok_0, tok_90, tok_0>>
    /\ ret.res[4] = <<"$", "{", "9", "0", " ", "+", " ", "p", ".", "r", "o", "t", "}">>
    /\ ret.res[5] = tok_0

\* ---- the file just written ---------------------------------------------

\* convert_kicad_fp_to_ergogen_fp has returned for files[idx]
Written == pc = "main" /\ idx > 0

NoText == [params |-> <<>>, blocks |-> <<>>, final |-> <<>>]

\* the text of <basename>.js of the file just converted
Output == DictGet(outdir, files[idx].base, NoText)

\* ---- C2 ----------------------------------------------------------------

BlockOrder ==
    << "standard_opening", "front_silkscreen", "front_pads", "front_fabrication",
       "front_mask", "front_courtyard", "front_paste", "pads", "back_silkscreen",
       "back_pads", "back_fabrication", "back_mask", "back_courtyard", "back_paste",
       "edge_cuts", "user_drawing", "user_comments", "user_eco1", "user_eco2",
       "model", "standard_closing" >>

\* the lines a block has beyond its fixed suffix line
Elements(name, block) ==
    IF name \in {"standard_opening", "standard_closing"}
    THEN SubSeq(block.body, 1, Len(block.body) - 1)
    ELSE block.body

\* C2: whatever the buckets hold, the file written has the 21 blocks in the
\* fixed order, `final` adds them up in that order, and a block of a
\* bucket without lines is there with an empty body.
C2_FixedBlockOrder ==
    Written =>
        /\ DictHas(outdir, files[idx].base)
        /\ DictKeys(Output.blocks) = BlockOrder
        /\ Output.final = BlockOrder
        /\ \A i \in 1..Len(target_layers) :
               Len(Elements(BlockOrder[i], Output.blocks[i].v))
                   = Len(DictGet(layers, target_layers[i].k, <<>>))

\* a file with front pads and no back pads has been written: front_pads has
\* a line, back_pads is there and empty
C2_Witness ==
    /\ Written
    /\ files[idx].kind = "ok"
    /\ DictHas(layers, F_CU)
    /\ ~DictHas(layers, B_CU)
    /\ DictGet(Output.blocks, "front_pads", [body |-> <<>>]).body # <<>>
    /\ DictHas(Output.blocks, "back_pads")
    /\ DictGet(Output.blocks, "back_pads", [body |-> <<"">>]).body = <<>>

\* ---- C3 ----------------------------------------------------------------

Literal == <<"$", "{", "x">>

RECURSIVE CountInTokens(_, _)
\* the occurrences of pat in the tokens of a node, at any depth
CountInTokens(node, pat) ==
    IF node.atom THEN CountOcc(node.tok, pat)
    ELSE SumOf([i \in 1..Len(node.kids) |-> CountInTokens(node.kids[i], pat)])

\* the places of s where pat stands behind exactly one backslash
EscapedOnce(s, pat) ==
    {i \in 2..(Len(s) - Len(pat) + 1) :
        /\ SubSeq(s, i, i + Len(pat) - 1) = pat
        /\ s[i - 1] = "\\"
        /\ (i > 2 => s[i - 2] # "\\")}

\* C3: every `${` of a source token, root-level scalar tokens included, is
\* in the block text escaped exactly once.
C3_LiteralsEscapedOnce ==
    (Written /\ files[idx].kind = "ok") =>
        /\ \A b \in 1..Len(Output.blocks) :
               \A j \in 1..Len(Output.blocks[b].v.body) :
                   LET line == Output.blocks[b].v.body[j]
                   IN  CountOcc(line, Literal) = Cardinality(EscapedOnce(line, Literal))
        /\ CountInTokens(files[idx].tree, Literal)
               = SumOf([b \in 1..Len(Output.blocks) |->
                     SumOf([j \in 1..Len(Output.blocks[b].v.body) |->
                         Cardinality(EscapedOnce(Output.blocks[b].v.body[j], Literal))])])

\* ---- C4 ----------------------------------------------------------------

\* C4: no bucket holds an empty line.
C4_NoEmptyLine ==
    \A b \in 1..Len(layers) : \A j \in 1..Len(layers[b].v) : layers[b].v[j] # <<>>

\* ---- C5 ----------------------------------------------------------------

\* C5: a missing input file is reported and no <basename>.js is written for
\* it; here for a missing file that shares its basename with no other file.
C5_NoOutputForMissing ==
    \A i \in 1..idx :
        (/\ files[i].kind = "missing"
         /\ \A j \in 1..Len(files) : j # i => files[j].base # files[i].base)
            => /\ ~DictHas(outdir, files[i].base)
               /\ (i < idx \/ pc # "convert") => \E e \in 1..Len(errors) : errors[e] = files[i]

\* ---- C6 ----------------------------------------------------------------

\* the file can be opened and parsed, and no handler raises on it
Convertible(file) == file.kind = "ok" /\ _make_onelines(file.tree).ok

\* C6: when the program has ended, every file of the walk that converts
\* has its output file, whatever happened to the other files.
C6_BatchNeverAborted ==
    pc \in {"exit", "raised"} =>
        \A i \in 1..Len(files) : Convertible(files[i]) => DictHas(outdir, files[i].base)

\* ---- C7 ----------------------------------------------------------------

RECURSIVE PadIds(_)
\* the identifiers of the pad nodes of a tree, at any depth, one per node
PadIds(node) ==
    IF node.atom THEN <<>>
    ELSE LET below == [i \in 1..Len(node.kids) |-> PadIds(node.kids[i])]
             RECURSIVE Flat(_)
             Flat(ss) == IF ss = <<>> THEN <<>> ELSE Head(ss) \o Flat(Tail(ss))
             own == IF /\ Len(node.kids) >= 2
                       /\ node.kids[1].atom
                       /\ node.kids[1].tok = <<"p", "a", "d">>
                       /\ node.kids[2].atom
                    THEN <<node.kids[2].tok>> ELSE <<>>
         IN  own \o Flat(below)

\* the parameter name of a pad identifier
ParamName(id) ==
    LET bare == Strip(id, "\"")
    IN  IF IsDigit(bare[1]) THEN <<"P">> \o bare ELSE bare

NetPlaceholder(name) == <<"$", "{", "p", ".">> \o name \o <<"}">>

\* C7: the parameters of the file just written are the names of its own pad
\* nodes with a non-empty identifier, each once, whatever was converted
\* before; every such pad node has one placeholder of its name in the
\* lines; a pad node with identifier "" has none and stays as it is.
C7_OwnPadParameters ==
    (Written /\ files[idx].kind = "ok") =>
        LET ids == PadIds(files[idx].tree)
            named == {i \in 1..Len(ids) : ids[i] # <<"\"", "\"">>}
            names == {ParamName(ids[i]) : i \in named}
            params == Output.params
        IN  /\ {params[i] : i \in 1..Len(params)} = names
            /\ Len(params) = Cardinality(names)
            /\ \A n \in names :
                   SumOf([l \in 1..Len(_onelines) |-> CountOcc(_onelines[l], NetPlaceholder(n))])
                       = Cardinality({i \in named : ParamName(ids[i]) = n})
            /\ \A l \in 1..Len(_onelines) : ~Contains(_onelines[l], NetPlaceholder(<<>>))
            /\ (\E k \in 1..Len(files[idx].tree.kids) : files[idx].tree.kids[k] = n_pad_empty)
                   => \E l \in 1..Len(_onelines) :
                          _onelines[l] = <<"(", "p", "a", "d", " ", "\"", "\"", " ", "n", "p", " ",
                                           "(", "l", "a", "y", "e", "r", "s", " ",
                                           "\"", "B", ".", "C", "u", "\"", ")", ")">>

\* the second file of a walk, with pads "" and "7", has been written after
\* a first file with pads "1" and A: its only parameter is P7
C7_Witness ==
    /\ Written
    /\ idx = 2
    /\ files[1] = File("lib", "a", "ok", List(<<n_footprint, n_pad_1, n_pad_A>>))
    /\ files[2] = File("lib", "b", "ok", List(<<n_footprint, n_pad_empty, n_group>>))
    /\ DictGet(outdir, "a", NoText).params \in {<<<<"P", "1">>, <<"A">>>>, <<<<"A">>, <<"P", "1">>>>}
    /\ Output.params = <<<<"P", "7">>>>

\* ---- C10 ---------------------------------------------------------------

RECURSIVE FlattenedFrom(_, _, _)
\* the lines of a root node: each maximal run of scalar tokens as one line,
\* each list child as its rewritten line, the last run included
FlattenedFrom(kids, i, run) ==
    IF i > Len(kids) THEN (IF run # <<>> THEN <<run>> ELSE <<>>)
    ELSE IF kids[i].atom THEN FlattenedFrom(kids, i + 1, run \o <<" ">> \o kids[i].tok)
    ELSE (IF run # <<>> THEN <<run>> ELSE <<>>)
             \o <<_rebuild_mod_data(kids[i]).res>> \o FlattenedFrom(kids, i + 1, <<>>)

\* C10: the lines of a converted file hold every root-level child once and
\* in order, a run of scalar tokens after the last list child included.
C10_FlatteningLosesNothing ==
    (pc = "get_layers" /\ files[idx].kind = "ok") =>
        _onelines = FlattenedFrom(files[idx].tree.kids, 1, <<>>)

====
